---------------------------- MODULE Spec2Model ----------------------------
(***************************************************************************)
(* A model of the OpenType feature object library: Substitution and        *)
(* SequenceElement (src/substitution.py) and Feature (src/feature.py).     *)
(*                                                                         *)
(* Text is modelled as a sequence of lexemes.  A lexeme is an indivisible  *)
(* run of characters: a keyword ("sub", "by", "lookup", ...), a glyph or   *)
(* tag name, or one of the punctuation characters the code looks at        *)
(* (" ", ";", "'", "[", "]", "{", "}", "#", tab).  Every regular           *)
(* expression and string method of the source is translated to the         *)
(* corresponding search over lexeme sequences.  The names used in the      *)
(* bounded inputs contain none of the keywords as substrings, so that a    *)
(* match at character level is a match at lexeme level and conversely.     *)
(*                                                                         *)
(* Python's None is the string "None" where the other values are strings,  *)
(* and an explicit flag where they are not.                                *)
(***************************************************************************)
EXTENDS Integers, Sequences, FiniteSets, TLC

VARIABLES
    \* one Substitution and the operation applied to it last
    s_code,             \* the line handed to Substitution(code, ...)
    s_pc,               \* "new", "built", "raised" or "done"
    s_obj,              \* the Substitution object
    s_op,               \* the last call on s_obj with its arguments and result
    \* one Feature: Feature(code, name) and the operation applied to it last
    code_lines,         \* the stripped non-empty lines of the input read so far
    i,                  \* index of the next line of code_lines
    current_script,
    current_language,
    name,               \* Feature.name
    code_sequence,      \* Feature.code_sequence
    scripts,            \* Feature.scripts
    languages,          \* Feature.languages
    all_glyphs,         \* Feature.all_glyphs
    pc,                 \* "parsing", "parsed", "raised" or "done"
    op                  \* the last call on the Feature with its arguments and result

s_vars == <<s_code, s_pc, s_obj, s_op>>
f_vars == <<code_lines, i, current_script, current_language, name, code_sequence,
            scripts, languages, all_glyphs, pc, op>>
vars == <<s_vars, f_vars>>

None == "None"
SP == " "
TAB == "\t"
TICK == "'"

(***************************************************************************)
(* Generic helpers on sequences of lexemes.                                *)
(***************************************************************************)
Min(S) == CHOOSE x \in S : \A y \in S : x <= y
Max(S) == CHOOSE x \in S : \A y \in S : x >= y

RECURSIVE Join(_, _)
\* sep.join(ss)
Join(ss, sep) ==
    IF ss = <<>> THEN <<>>
    ELSE IF Len(ss) = 1 THEN ss[1]
    ELSE ss[1] \o sep \o Join(Tail(ss), sep)

\* t[p:p+len(pat)] == pat
MatchAt(t, pat, p) ==
    /\ p >= 1
    /\ p + Len(pat) - 1 <= Len(t)
    /\ SubSeq(t, p, p + Len(pat) - 1) = pat

\* positions at which pat occurs in t
Occurrences(t, pat) == {p \in 1..Len(t) : MatchAt(t, pat, p)}

StartsWith(t, pat) == MatchAt(t, pat, 1)

RECURSIVE ReplaceFrom(_, _, _, _)
\* str.replace(old, new): every non-overlapping occurrence, left to right
ReplaceFrom(t, old, new, p) ==
    IF p > Len(t) THEN <<>>
    ELSE IF Len(old) > 0 /\ MatchAt(t, old, p)
         THEN new \o ReplaceFrom(t, old, new, p + Len(old))
         ELSE <<t[p]>> \o ReplaceFrom(t, old, new, p + 1)

Replace(t, old, new) == ReplaceFrom(t, old, new, 1)

RECURSIVE SplitFrom(_, _, _)
\* str.split(sep) for a one-lexeme separator: always at least one piece,
\* and an empty piece between two adjacent separators
SplitFrom(t, sep, p) ==
    LET rest == {q \in p..Len(t) : t[q] = sep} IN
    IF rest = {} THEN <<SubSeq(t, p, Len(t))>>
    ELSE <<SubSeq(t, p, Min(rest) - 1)>> \o SplitFrom(t, sep, Min(rest) + 1)

Split(t, sep) == SplitFrom(t, sep, 1)

IsWhite(x) == x = SP \/ x = TAB

\* str.strip()
Strip(t) ==
    LET keep == {p \in 1..Len(t) : ~IsWhite(t[p])} IN
    IF keep = {} THEN <<>> ELSE SubSeq(t, Min(keep), Max(keep))

RECURSIVE SeqToSet(_)
SeqToSet(s) == IF s = <<>> THEN {} ELSE {Head(s)} \cup SeqToSet(Tail(s))

(***************************************************************************)
(* SequenceElement (src/substitution.py 9-42).                             *)
(***************************************************************************)
\* lexemes whose first character is "@"
AtLexemes == {"@C", "@D"}

\* element[0] == '@' / gn.startswith('@')
StartsWithAt(t) == Len(t) > 0 /\ t[1] \in AtLexemes

\* re.search(r'\[(.+)\]', element).group(1).split(' '); <<>> when the search
\* fails (the AttributeError is swallowed)
InlineMembers(element) ==
    LET cands == {p \in 1..Len(element) :
                     /\ element[p] = "["
                     /\ \E q \in (p + 2)..Len(element) : element[q] = "]"} IN
    IF cands = {} THEN <<>>
    ELSE LET p == Min(cands)
             q == Max({r \in (p + 2)..Len(element) : element[r] = "]"})
         IN Split(SubSeq(element, p + 1, q - 1), SP)

RECURSIVE FilterGlyphNames(_)
\* [gn for gn in glyph_names if not gn.startswith('@') and gn]
FilterGlyphNames(gns) ==
    IF gns = <<>> THEN <<>>
    ELSE IF Head(gns) # <<>> /\ ~StartsWithAt(Head(gns))
         THEN <<Head(gns)>> \o FilterGlyphNames(Tail(gns))
         ELSE FilterGlyphNames(Tail(gns))

ElementType(element) ==
    IF StartsWithAt(element) THEN "class"
    ELSE IF element[1] = "[" /\ \E q \in 1..Len(element) : element[q] = "]"
         THEN "inline_class"
    ELSE IF StartsWith(element, <<"lookup", SP>>) THEN "lookup_ref"
    ELSE "glyph"

\* SequenceElement.__init__ for a non-empty element; the empty element makes
\* element[-1] raise IndexError, which parse_sequence models
SequenceElement(element) ==
    LET is_target == element[Len(element)] = TICK
        value == IF is_target THEN SubSeq(element, 1, Len(element) - 1)
                 ELSE element
        type == ElementType(element)
        names == IF type = "inline_class" THEN InlineMembers(element)
                 ELSE IF type = "glyph" THEN <<value>>
                 ELSE <<>>
    IN [name |-> element,
        is_target |-> is_target,
        is_context |-> None,
        value |-> value,
        type |-> type,
        lookup_ref |-> IF type = "lookup_ref"
                       THEN SubSeq(element, 3, Len(element)) ELSE <<>>,
        glyph_names |-> FilterGlyphNames(names)]

(***************************************************************************)
(* Substitution.parse_sequence (src/substitution.py 96-130).               *)
(***************************************************************************)
\* end of the match of \[.+?\]'? that starts at p, 0 when there is none
InlineMatchEnd(t, p) ==
    IF p > Len(t) \/ t[p] # "[" THEN 0
    ELSE LET qs == {q \in (p + 2)..Len(t) : t[q] = "]"} IN
         IF qs = {} THEN 0
         ELSE IF Min(qs) < Len(t) /\ t[Min(qs) + 1] = TICK THEN Min(qs) + 1
         ELSE Min(qs)

RECURSIVE FindAllInline(_, _)
\* re.findall(r"(\[.+?\]'?)", text_sequence)
FindAllInline(t, p) ==
    IF p > Len(t) THEN <<>>
    ELSE IF InlineMatchEnd(t, p) > 0
         THEN <<SubSeq(t, p, InlineMatchEnd(t, p))>>
              \o FindAllInline(t, InlineMatchEnd(t, p) + 1)
         ELSE FindAllInline(t, p + 1)

\* end of the match of lookup [^\s]+ that starts at p, 0 when there is none
LookupRefMatchEnd(t, p) ==
    IF ~(MatchAt(t, <<"lookup", SP>>, p) /\ p + 2 <= Len(t) /\ ~IsWhite(t[p + 2]))
    THEN 0
    ELSE LET stops == {q \in (p + 2)..Len(t) : IsWhite(t[q])} IN
         IF stops = {} THEN Len(t) ELSE Min(stops) - 1

RECURSIVE FindAllLookupRef(_, _)
\* re.findall(r"(lookup [^\s]+)", text_sequence)
FindAllLookupRef(t, p) ==
    IF p > Len(t) THEN <<>>
    ELSE IF LookupRefMatchEnd(t, p) > 0
         THEN <<SubSeq(t, p, LookupRefMatchEnd(t, p))>>
              \o FindAllLookupRef(t, LookupRefMatchEnd(t, p) + 1)
         ELSE FindAllLookupRef(t, p + 1)

\* '{' + 'inline_class_{}'.format(i) + '}' as one lexeme
InlinePlaceholder(n) == "{inline_class_" \o ToString(n) \o "}"
\* '{' + 'lookup_ref_{}'.format(i) + '}' as one lexeme
LookupRefPlaceholder(n) == "{lookup_ref_" \o ToString(n) \o "}"

RECURSIVE ProtectInline(_, _, _)
\* the loop of lines 103-106 from match number n (0-based) on
ProtectInline(t, matches, n) ==
    IF n >= Len(matches) THEN t
    ELSE ProtectInline(Replace(t, matches[n + 1], <<InlinePlaceholder(n)>>),
                       matches, n + 1)

RECURSIVE ProtectLookupRef(_, _, _)
\* the loop of lines 109-112 from match number n (0-based) on
ProtectLookupRef(t, matches, n) ==
    IF n >= Len(matches) THEN t
    ELSE ProtectLookupRef(Replace(t, matches[n + 1], <<LookupRefPlaceholder(n)>>),
                          matches, n + 1)

\* inline_classes.get(element[1:-1], element): the key is found exactly when
\* the element is '{' + key + '}', one placeholder lexeme of the dictionary
GetInline(matches, element) ==
    LET hits == {n \in 0..(Len(matches) - 1) : element = <<InlinePlaceholder(n)>>} IN
    IF hits = {} THEN element ELSE matches[Min(hits) + 1]

\* lookup_refs.get(element[1:-1], element)
GetLookupRef(matches, element) ==
    LET hits == {n \in 0..(Len(matches) - 1) : element = <<LookupRefPlaceholder(n)>>} IN
    IF hits = {} THEN element ELSE matches[Min(hits) + 1]

RECURSIVE MarkContext(_)
\* obj.is_context = not obj.is_target, for every obj
MarkContext(objs) ==
    IF objs = <<>> THEN <<>>
    ELSE <<[Head(objs) EXCEPT !.is_context =
                IF Head(objs).is_target THEN "False" ELSE "True"]>>
         \o MarkContext(Tail(objs))

RECURSIVE BuildElements(_)
BuildElements(elements) ==
    IF elements = <<>> THEN <<>>
    ELSE <<SequenceElement(Head(elements))>> \o BuildElements(Tail(elements))

\* parse_sequence returns [raised, seen_target, object_sequence]; raised is
\* the IndexError of SequenceElement('') for an empty piece of the split.
\* The steps of parse_sequence follow, last step first.

\* lines 125-130: the elements are marked when a target was seen
MarkSequence(objs, seen_target) ==
    [raised |-> FALSE, seen_target |-> seen_target,
     object_sequence |-> IF seen_target THEN MarkContext(objs) ELSE objs]

\* lines 120-123: one SequenceElement for every element
ElementSequence(objs) ==
    MarkSequence(objs, \E k \in 1..Len(objs) : objs[k].is_target)

\* line 120 raises for the empty element
CheckElements(elements) ==
    IF \E k \in 1..Len(elements) : elements[k] = <<>>
    THEN [raised |-> TRUE, seen_target |-> FALSE, object_sequence |-> <<>>]
    ELSE ElementSequence(BuildElements(elements))

\* lines 116-119: the pieces of the split, placeholders replaced back
RestorePieces(pieces, inline_classes, lookup_refs) ==
    CheckElements([k \in 1..Len(pieces) |->
        GetLookupRef(lookup_refs, GetInline(inline_classes, pieces[k]))])

\* lines 109-116: the lookup references replaced by placeholders, and the split
SplitProtected(t1, inline_classes, lookup_refs) ==
    RestorePieces(Split(ProtectLookupRef(t1, lookup_refs, 0), SP),
                  inline_classes, lookup_refs)

\* line 109: the lookup references of the text without its inline classes
FindLookupRefs(t1, inline_classes) ==
    SplitProtected(t1, inline_classes, FindAllLookupRef(t1, 1))

\* lines 103-106: the inline classes replaced by placeholders
ProtectClasses(text_sequence, inline_classes) ==
    FindLookupRefs(ProtectInline(text_sequence, inline_classes, 0), inline_classes)

parse_sequence(text_sequence) ==
    ProtectClasses(text_sequence, FindAllInline(text_sequence, 1))

(***************************************************************************)
(* Substitution (src/substitution.py 45-172).                              *)
(***************************************************************************)
NoMatch == [found |-> FALSE, group |-> <<>>]

\* re.search(r'sub (.+?) by', raw_code)
InputSearch(t) ==
    LET ends(p) == {q \in (p + 3)..Len(t) : MatchAt(t, <<SP, "by">>, q)}
        starts == {p \in Occurrences(t, <<"sub", SP>>) : ends(p) # {}}
    IN IF starts = {} THEN NoMatch
       ELSE [found |-> TRUE,
             group |-> SubSeq(t, Min(starts) + 2, Min(ends(Min(starts))) - 1)]

\* re.search(r' by (.+?);', raw_code)
OutputSearch(t) ==
    LET ends(p) == {q \in (p + 4)..Len(t) : t[q] = ";"}
        starts == {p \in Occurrences(t, <<SP, "by", SP>>) : ends(p) # {}}
    IN IF starts = {} THEN NoMatch
       ELSE [found |-> TRUE,
             group |-> SubSeq(t, Min(starts) + 3, Min(ends(Min(starts))) - 1)]

\* re.search('sub .+? lookup .+', raw_code)
ChainingSearch(t) ==
    \E p \in Occurrences(t, <<"sub", SP>>) :
        \E r \in Occurrences(t, <<SP, "lookup", SP>>) :
            r >= p + 3 /\ r + 3 <= Len(t)

\* re.search(r'sub (.+);', raw_code)
ChainingInputSearch(t) ==
    LET ends(p) == {q \in (p + 3)..Len(t) : t[q] = ";"}
        starts == {p \in Occurrences(t, <<"sub", SP>>) : ends(p) # {}}
    IN IF starts = {} THEN NoMatch
       ELSE [found |-> TRUE,
             group |-> SubSeq(t, Min(starts) + 2, Max(ends(Min(starts))) - 1)]

RECURSIVE GlyphsOf(_)
\* for ie in sequence: glyphs += ie.glyph_names
GlyphsOf(objs) ==
    IF objs = <<>> THEN <<>>
    ELSE Head(objs).glyph_names \o GlyphsOf(Tail(objs))

\* Substitution.__init__ before parse_code runs
NewSubstitution(code, script, language) ==
    [kind |-> "Substitution",
     raw_code |-> code,
     input_sequence |-> <<>>,
     output_sequence |-> <<>>,
     input_glyphs |-> <<>>,
     output_glyphs |-> <<>>,
     all_glyphs |-> <<>>,
     script |-> script,
     language |-> language,
     is_chaining |-> FALSE,
     is_contextual |-> FALSE]

\* lines 78-88: group(1) of a search parsed; the AttributeError of a failed
\* search is swallowed and leaves the sequence empty
ParseGroup(search) ==
    IF search.found THEN parse_sequence(search.group)
    ELSE [raised |-> FALSE, seen_target |-> FALSE, object_sequence |-> <<>>]

\* lines 78-94 with the two sequences parsed: [raised, obj]
StoreSequences(self, chaining, pin, pout) ==
    IF pin.raised \/ pout.raised THEN [raised |-> TRUE, obj |-> self]
    ELSE [raised |-> FALSE,
          obj |-> [self EXCEPT
              !.is_chaining = chaining,
              !.input_sequence = pin.object_sequence,
              !.output_sequence = pout.object_sequence,
              !.is_contextual = pin.seen_target \/ pout.seen_target,
              !.input_glyphs = GlyphsOf(pin.object_sequence),
              !.output_glyphs = GlyphsOf(pout.object_sequence),
              !.all_glyphs = GlyphsOf(pin.object_sequence)
                             \o GlyphsOf(pout.object_sequence)]]

\* lines 71-76 with the result of the two searches and of the chaining test
ChooseSearch(self, in0, out, chaining) ==
    IF (~in0.found \/ ~out.found) /\ ~chaining THEN [raised |-> FALSE, obj |-> self]
    ELSE StoreSequences(self, chaining,
             ParseGroup(IF chaining THEN ChainingInputSearch(self.raw_code) ELSE in0),
             ParseGroup(out))

\* lines 69-72 with the result of the two searches
TestChaining(self, in0, out) ==
    ChooseSearch(self, in0, out,
                 (~in0.found \/ ~out.found) /\ ChainingSearch(self.raw_code))

\* Substitution.parse_code on a fresh object: [raised, obj]
Substitution_parse_code(self) ==
    TestChaining(self, InputSearch(self.raw_code), OutputSearch(self.raw_code))

\* Substitution(code, script, language): parse_code runs when code is
\* non-empty
Substitution(code, script, language) ==
    IF code = <<>>
    THEN [raised |-> FALSE, obj |-> NewSubstitution(code, script, language)]
    ELSE Substitution_parse_code(NewSubstitution(code, script, language))

\* Substitution.sequence_to_str
sequence_to_str(object_list) ==
    Join([k \in 1..Len(object_list) |->
             IF object_list[k].is_target
             THEN object_list[k].value \o <<TICK>>
             ELSE object_list[k].value], <<SP>>)

RECURSIVE Tabs(_)
\* '\t' * tab_level
Tabs(n) == IF n <= 0 THEN <<>> ELSE <<TAB>> \o Tabs(n - 1)

\* Substitution.write
Substitution_write(self, tab_level) ==
    IF self.is_chaining
    THEN Tabs(tab_level) \o <<"sub", SP>> \o sequence_to_str(self.input_sequence)
         \o <<";">>
    ELSE Tabs(tab_level) \o <<"sub", SP>> \o sequence_to_str(self.input_sequence)
         \o <<SP, "by", SP>> \o sequence_to_str(self.output_sequence) \o <<";">>

(***************************************************************************)
(* Filters and subsetting of a Substitution.  A filter argument is either  *)
(* None (given = FALSE) or a list (given = TRUE), of which the code reads  *)
(* its truth value and its members only.                                   *)
(***************************************************************************)
Unset == [given |-> FALSE, items |-> {}]
List(S) == [given |-> TRUE, items |-> S]

\* Python truth value of a filter argument: None and the empty list are false
Truthy(f) == f.given /\ f.items # {}

\* all([x is None for x in [scripts, languages, glyphs]])
AllNone(fscripts, flanguages, fglyphs) ==
    ~fscripts.given /\ ~flanguages.given /\ ~fglyphs.given

Nothing == [some |-> FALSE, obj |-> <<>>]
Some(x) == [some |-> TRUE, obj |-> x]

\* Substitution.subset
Substitution_subset(self, fscripts, flanguages, fglyphs) ==
    IF AllNone(fscripts, flanguages, fglyphs) THEN Some(self)
    ELSE IF Truthy(fscripts) /\ self.script \notin fscripts.items THEN Nothing
    ELSE IF Truthy(flanguages) /\ self.language \notin flanguages.items THEN Nothing
    ELSE IF Truthy(fglyphs) /\ ~(SeqToSet(self.all_glyphs) \subseteq fglyphs.items)
         THEN Nothing
    ELSE Some(self)

(***************************************************************************)
(* Bounded inputs for one Substitution.  A line is "sub", then up to       *)
(* MaxAtoms atoms each preceded by one space, then ";" or nothing.  The    *)
(* empty atom gives two adjacent spaces, or a space before the ";".        *)
(***************************************************************************)
MaxAtoms == 3

Atoms ==
    { <<"a">>, <<"b", TICK>>, <<"@C">>, <<"[", "a", SP, "b", "]", TICK>>,
      <<"by">>, <<"lookup">>, <<"L">>, <<>> }

RECURSIVE AtomRuns(_)
\* the texts made of at most n atoms, each preceded by a space
AtomRuns(n) ==
    IF n = 0 THEN {<<>>}
    ELSE AtomRuns(n - 1)
         \cup {r \o <<SP>> \o a : r \in AtomRuns(n - 1), a \in Atoms}

SubLines == {<<"sub">> \o r \o e : r \in AtomRuns(MaxAtoms), e \in {<<>>, <<";">>}}

ScriptTags == {"latn", "dev2"}
LanguageTags == {"DEU", "MAR"}

\* the (script, language) pairs a Substitution is constructed with
SubScopes == {<<None, None>>, <<"latn", "DEU">>}

ScriptFilters == {Unset, List({}), List({"latn"}), List({"dev2", None})}
LanguageFilters == {Unset, List({}), List({"DEU"}), List({None})}
GlyphFilters == {Unset, List({}), List({<<"a">>}), List({<<"a">>, <<"b">>})}

\* the pairs of filters of one kind for two subsets in a row
FilterKinds == {"scripts", "languages", "glyphs"}
FiltersOf(kind) ==
    IF kind = "scripts" THEN ScriptFilters \ {Unset}
    ELSE IF kind = "languages" THEN LanguageFilters \ {Unset}
    ELSE GlyphFilters \ {Unset}

\* the arguments of subset for one filter of one kind, the others not supplied
OnlyFilter(kind, f) ==
    [scripts |-> IF kind = "scripts" THEN f ELSE Unset,
     languages |-> IF kind = "languages" THEN f ELSE Unset,
     glyphs |-> IF kind = "glyphs" THEN f ELSE Unset]

\* the list of the members two lists have in common
Intersection(fa, fb) == List(fa.items \cap fb.items)

NoOp == [name |-> "none"]

\* the variables of the Substitution while the Feature is worked on
SubIdle ==
    /\ s_code = <<>>
    /\ s_pc = "idle"
    /\ s_obj = NewSubstitution(<<>>, None, None)
    /\ s_op = NoOp

\* the variables of the Feature while the Substitution is worked on
FeatureIdle ==
    /\ code_lines = <<>>
    /\ i = 1
    /\ current_script = None
    /\ current_language = None
    /\ name = <<>>
    /\ code_sequence = <<>>
    /\ scripts = {}
    /\ languages = {}
    /\ all_glyphs = {}
    /\ pc = "idle"
    /\ op = NoOp

SubInit ==
    /\ s_code \in SubLines
    /\ s_pc = "new"
    /\ s_obj = NewSubstitution(<<>>, None, None)
    /\ s_op = NoOp
    /\ FeatureIdle

Constructed(r) ==
    /\ s_pc' = IF r.raised THEN "raised" ELSE "built"
    /\ s_obj' = r.obj
    /\ UNCHANGED <<s_code, s_op>>
    /\ UNCHANGED f_vars

\* Substitution(code, script, language)
Construct ==
    /\ s_pc = "new"
    /\ \E sc \in SubScopes : Constructed(Substitution(s_code, sc[1], sc[2]))

\* s_obj.subset(scripts, languages, glyphs)
Subset ==
    /\ s_pc = "built"
    /\ \E fs \in ScriptFilters, fl \in LanguageFilters, fg \in GlyphFilters :
         s_op' = [name |-> "subset", scripts |-> fs, languages |-> fl, glyphs |-> fg,
                  result |-> Substitution_subset(s_obj, fs, fl, fg)]
    /\ s_pc' = "done"
    /\ UNCHANGED <<s_code, s_obj>>
    /\ UNCHANGED f_vars

\* x.subset(...) for the result x of an earlier subset: nothing is retained
\* when x is nothing
SubsetAgain(first, args) ==
    IF first.some
    THEN Substitution_subset(first.obj, args.scripts, args.languages, args.glyphs)
    ELSE Nothing

\* the record of s_obj.subset(A).subset(B) and of s_obj.subset(A /\ B)
TwiceRecord(kind, fa, fb, first, direct) ==
    [name |-> "subset_twice", kind |-> kind, a |-> fa, b |-> fb,
     first |-> first,
     second |-> SubsetAgain(first, OnlyFilter(kind, fb)),
     direct |-> direct]

\* s_obj.subset(A).subset(B) next to s_obj.subset(A /\ B), A and B of one kind
SubsetTwice ==
    /\ s_pc = "built"
    /\ \E kind \in FilterKinds :
         \E fa \in FiltersOf(kind), fb \in FiltersOf(kind) :
            s_op' = TwiceRecord(kind, fa, fb,
                        SubsetAgain(Some(s_obj), OnlyFilter(kind, fa)),
                        SubsetAgain(Some(s_obj),
                                    OnlyFilter(kind, Intersection(fa, fb))))
    /\ s_pc' = "done"
    /\ UNCHANGED <<s_code, s_obj>>
    /\ UNCHANGED f_vars

\* one Substitution: construction, then one call
SubNext == Construct \/ Subset \/ SubsetTwice

SubSpec == SubInit /\ [][SubNext]_vars

(***************************************************************************)
(* Properties of one Substitution, checked under SubSpec.                  *)
(***************************************************************************)
\* the predicate of the subsetting rule, a filter being unset exactly when
\* it was not supplied
Admits(self, fscripts, flanguages, fglyphs) ==
    /\ ~fscripts.given \/ self.script \in fscripts.items
    /\ ~flanguages.given \/ self.language \in flanguages.items
    /\ ~fglyphs.given \/ SeqToSet(self.all_glyphs) \subseteq fglyphs.items

\* C1: Substitution.subset returns a copy of the rule if and only if every
\* supplied filter admits the rule (its script is in scripts, its language is
\* in languages, its glyphs are all in glyphs), and nothing otherwise, for
\* every supplied value including the empty list and a list that holds None.
C1_SubsetIffAdmitted ==
    s_op.name = "subset" =>
        /\ s_op.result.some <=> Admits(s_obj, s_op.scripts, s_op.languages, s_op.glyphs)
        /\ s_op.result.some => s_op.result.obj = s_obj

\* the rules a subset retained
Retained(r) == IF r.some THEN {r.obj} ELSE {}

\* C4: subsetting a Substitution by A and then by B retains the same rules as
\* subsetting it once by the intersection of A and B, also when the
\* intersection is empty and when the first subset returns nothing.
C4_SubsetComposition ==
    s_op.name = "subset_twice" => Retained(s_op.second) = Retained(s_op.direct)

\* the elements of both sequences of a rule
Elements(self) == self.input_sequence \o self.output_sequence

HasTarget(self) == \E k \in 1..Len(Elements(self)) : Elements(self)[k].is_target

\* C8: in a parsed Substitution with a target-marked element in its input or
\* output sequence, is_contextual is true, every element of both sequences
\* that is no target has is_context true and every target has is_context
\* false; with no target-marked element, is_contextual is false and no
\* element is marked as context.
C8_ContextMarking ==
    s_pc = "built" =>
        /\ s_obj.is_contextual = HasTarget(s_obj)
        /\ \A k \in 1..Len(Elements(s_obj)) :
              IF ~HasTarget(s_obj) THEN Elements(s_obj)[k].is_context # "True"
              ELSE IF Elements(s_obj)[k].is_target
                   THEN Elements(s_obj)[k].is_context = "False"
                   ELSE Elements(s_obj)[k].is_context = "True"

\* the line has the form `sub ... by ...;` or the chaining form
HasRuleForm(code) ==
    \/ InputSearch(code).found /\ OutputSearch(code).found
    \/ ChainingSearch(code)

\* C10: constructing a Substitution from a line that begins with `sub` never
\* raises, and a line of neither form gives a Substitution with empty
\* sequences, no glyphs, is_chaining and is_contextual false.
C10_SoftParseMiss ==
    /\ s_pc # "raised"
    /\ s_pc = "built" /\ ~HasRuleForm(s_code) =>
          /\ s_obj.input_sequence = <<>>
          /\ s_obj.output_sequence = <<>>
          /\ s_obj.all_glyphs = <<>>
          /\ ~s_obj.is_chaining
          /\ ~s_obj.is_contextual

(***************************************************************************)
(* The statements of lookup.py (LookupFlag, InFeatureClass, Lookup), which *)
(* feature.py imports.  They are modelled from the specification.          *)
(***************************************************************************)
\* None for a value that is otherwise a text (a lookup name)
NoneText == <<None>>

\* a LookupFlag read from one line: a comment, a lookupflag setting, a
\* script or language declaration, or a bare `lookup NAME;` reference
LookupFlag(line, script, language) ==
    LET declares(word) == /\ StartsWith(line, <<word, SP>>)
                          /\ Len(line) = 4
                          /\ line[4] = ";"
        is_ref == /\ StartsWith(line, <<"lookup", SP>>)
                  /\ Len(line) >= 4
                  /\ line[Len(line)] = ";"
                  /\ \A k \in 3..(Len(line) - 1) : ~IsWhite(line[k])
    IN [kind |-> "LookupFlag",
        raw_code |-> line,
        script |-> IF declares("script") THEN line[3] ELSE None,
        language |-> IF declares("language") THEN line[3] ELSE None,
        lookup_reference |-> IF is_ref THEN SubSeq(line, 3, Len(line) - 1)
                             ELSE NoneText,
        is_lookupflag |-> StartsWith(line, <<"lookupflag">>)]

\* an InFeatureClass read from `@Name = [glyph ...];`
InFeatureClass(line, script, language) ==
    [kind |-> "InFeatureClass",
     raw_code |-> line,
     name |-> <<line[1]>>,
     members |-> FilterGlyphNames(InlineMembers(line))]

\* x.lookup_reference as a truth value: None is false
HasReference(x) == x.kind = "LookupFlag" /\ x.lookup_reference # NoneText

\* re.search(r'lookup (.+?) {', line)
LookupNameSearch(line) ==
    LET ends(p) == {q \in (p + 3)..Len(line) : MatchAt(line, <<SP, "{">>, q)}
        starts == {p \in Occurrences(line, <<"lookup", SP>>) : ends(p) # {}}
    IN IF starts = {} THEN NoMatch
       ELSE [found |-> TRUE,
             group |-> SubSeq(line, Min(starts) + 2, Min(ends(Min(starts))) - 1)]

\* the glyph set of one statement
GlyphSetOf(x) ==
    IF x.kind = "InFeatureClass" THEN SeqToSet(x.members)
    ELSE IF x.kind = "Substitution" THEN SeqToSet(x.all_glyphs)
    ELSE IF x.kind = "Lookup" THEN x.all_glyphs
    ELSE {}

\* lines 95-108 without line 99: a script declaration keeps the language
FlagScope_NoReset(flag, script, language) ==
    LET script1 == IF flag.script # None THEN flag.script ELSE script
        takes == flag.language # None /\ script1 # None
    IN [obj |-> [flag EXCEPT
                    !.script = script1,
                    !.language = IF takes THEN flag.language
                                 ELSE IF language # None THEN language
                                 ELSE flag.language],
        scripts |-> IF flag.script # None THEN {flag.script} ELSE {},
        languages |-> IF takes THEN {flag.language} ELSE {},
        current_script |-> script1,
        current_language |-> IF takes THEN flag.language ELSE language]

\* lines 95-108 without the test of current_script in line 103: a language
\* declaration takes effect with no script current
FlagScope_LanguageAlways(flag, script, language) ==
    LET script1 == IF flag.script # None THEN flag.script ELSE script
        language1 == IF flag.script # None THEN None ELSE language
        takes == flag.language # None
    IN [obj |-> [flag EXCEPT
                    !.script = script1,
                    !.language = IF takes THEN flag.language
                                 ELSE IF language1 # None THEN language1
                                 ELSE flag.language],
        scripts |-> IF flag.script # None THEN {flag.script} ELSE {},
        languages |-> IF takes THEN {flag.language} ELSE {},
        current_script |-> script1,
        current_language |-> IF takes THEN flag.language ELSE language1]

\* the scope handling of a control statement (src/feature.py 95-108): the
\* flag as stored, the scope after it, and what it adds to scripts/languages
FlagScope(flag, script, language) ==
    LET script1 == IF flag.script # None THEN flag.script ELSE script
        language1 == IF flag.script # None THEN None ELSE language
        takes == flag.language # None /\ script1 # None
    IN [obj |-> [flag EXCEPT
                    !.script = script1,
                    !.language = IF takes THEN flag.language
                                 ELSE IF language1 # None THEN language1
                                 ELSE flag.language],
        scripts |-> IF flag.script # None THEN {flag.script} ELSE {},
        languages |-> IF takes THEN {flag.language} ELSE {},
        current_script |-> script1,
        current_language |-> IF takes THEN flag.language ELSE language1]

\* the state of the statement loop of a Lookup body
NewLookup(lookup_name, script, language) ==
    [kind |-> "Lookup",
     name |-> lookup_name,
     script |-> script,
     language |-> language,
     scripts |-> IF script = None THEN {} ELSE {script},
     languages |-> IF language = None THEN {} ELSE {language},
     all_glyphs |-> {},
     code_sequence |-> <<>>,
     current_script |-> script,
     current_language |-> language,
     raised |-> FALSE]

\* a class statement stored in the body
StoreBodyClass(st, obj) ==
    [st EXCEPT !.code_sequence = Append(@, obj),
               !.all_glyphs = @ \cup GlyphSetOf(obj)]

\* a substitution stored in the body; its failure is the failure of the block
StoreBodySubstitution(st, r) ==
    IF r.raised THEN [st EXCEPT !.raised = TRUE]
    ELSE [st EXCEPT !.code_sequence = Append(@, r.obj),
                    !.all_glyphs = @ \cup GlyphSetOf(r.obj)]

\* a control statement stored in the body, with its effect on the scope
StoreBodyFlag(st, f) ==
    [st EXCEPT
        !.code_sequence = Append(@, f.obj),
        !.scripts = @ \cup f.scripts,
        !.languages = @ \cup f.languages,
        !.current_script = f.current_script,
        !.current_language = f.current_language]

\* one statement of a Lookup body, classified as at Feature scope
LookupStatement(st, line) ==
    IF st.raised THEN st
    ELSE IF line[1] = "#"
    THEN [st EXCEPT !.code_sequence =
              Append(@, LookupFlag(line, st.current_script, st.current_language))]
    ELSE IF StartsWithAt(line)
    THEN StoreBodyClass(st, InFeatureClass(line, st.current_script,
                                           st.current_language))
    ELSE IF line[1] = "sub"
    THEN StoreBodySubstitution(st, Substitution(line, st.current_script,
                                                st.current_language))
    ELSE StoreBodyFlag(st, FlagScope(LookupFlag(line, st.current_script,
                                                st.current_language),
                                     st.current_script, st.current_language))

RECURSIVE LookupBody(_, _)
LookupBody(st, lines) ==
    IF lines = <<>> THEN st
    ELSE LookupBody(LookupStatement(st, Head(lines)), Tail(lines))

\* the Lookup object once its body has been read: [raised, obj]
BuildLookup(st) ==
    [raised |-> st.raised,
     obj |-> [kind |-> "Lookup",
              name |-> st.name,
              script |-> st.script,
              language |-> st.language,
              scripts |-> st.scripts,
              languages |-> st.languages,
              all_glyphs |-> st.all_glyphs,
              code_sequence |-> st.code_sequence]]

\* Lookup(lookup_text, script, language): lookup_text is the block from its
\* opening line, from which the name is read, to its closing line
Lookup(lookup_text, script, language) ==
    BuildLookup(LookupBody(NewLookup(LookupNameSearch(lookup_text[1]).group,
                                     script, language),
                           SubSeq(lookup_text, 2, Len(lookup_text) - 1)))

(***************************************************************************)
(* Feature.parse_code (src/feature.py 32-121).                             *)
(***************************************************************************)
\* re.search(r'}} ?{0}.*?;'.format(lookup_name), l)
CloseSearch(l, lookup_name) ==
    \E p \in 1..Len(l) :
        /\ l[p] = "}"
        /\ \/ /\ MatchAt(l, lookup_name, p + 1)
              /\ \E q \in (p + 1 + Len(lookup_name))..Len(l) : l[q] = ";"
           \/ /\ MatchAt(l, <<SP>> \o lookup_name, p + 1)
              /\ \E q \in (p + 2 + Len(lookup_name))..Len(l) : l[q] = ";"

\* the loop of lines 69-72: index of the first line from i on that closes
\* lookup_name, 0 when lookup_end stays None
FindLookupEnd(lines, i0, lookup_name) ==
    LET hits == {li \in i0..Len(lines) : CloseSearch(lines[li], lookup_name)} IN
    IF hits = {} THEN 0 ELSE Min(hits)

RECURSIVE ExtendReferenced_ScriptsOnly(_, _, _, _)
\* lines 111-117 without lines 116-117: the language of the reference is
\* not added
ExtendReferenced_ScriptsOnly(seq, lookup_reference, script, language) ==
    IF seq = <<>> THEN <<>>
    ELSE <<IF /\ Head(seq).kind = "Lookup"
              /\ Head(seq).name = lookup_reference
              /\ script # None
           THEN [Head(seq) EXCEPT !.scripts = @ \cup {script}]
           ELSE Head(seq)>>
         \o ExtendReferenced_ScriptsOnly(Tail(seq), lookup_reference, script, language)

RECURSIVE ExtendReferenced(_, _, _, _)
\* lines 111-117: every Lookup of code_sequence named lookup_reference gets
\* the current scope added to its scripts and languages
ExtendReferenced(seq, lookup_reference, script, language) ==
    IF seq = <<>> THEN <<>>
    ELSE LET cso == Head(seq)
             hit == cso.kind = "Lookup" /\ cso.name = lookup_reference
             cso1 == IF hit /\ script # None
                     THEN [cso EXCEPT !.scripts = @ \cup {script}] ELSE cso
             cso2 == IF hit /\ language # None
                     THEN [cso1 EXCEPT !.languages = @ \cup {language}] ELSE cso1
         IN <<cso2>> \o ExtendReferenced(Tail(seq), lookup_reference, script, language)

\* the parse state: the fields of the Feature and the locals of parse_code
ParseState(lines, i0, cs, cl, seq, ss, ls, gs, raised) ==
    [code_lines |-> lines, i |-> i0, current_script |-> cs, current_language |-> cl,
     code_sequence |-> seq, scripts |-> ss, languages |-> ls, all_glyphs |-> gs,
     raised |-> raised]

\* lines 85-88: a Lookup that declares no script (language) of its own takes
\* the current one
AdoptScope(obj, script, language) ==
    [obj EXCEPT
        !.scripts = IF script # None /\ obj.scripts = {} THEN {script} ELSE @,
        !.languages = IF language # None /\ obj.languages = {} THEN {language} ELSE @]

\* lines 78-88 and 119-121 with the scope at the end of the block's body
\* taken over as the current scope of the Feature
StoreLookup_LeakScope(st, lookup_end, r) ==
    IF r.raised THEN [st EXCEPT !.raised = TRUE]
    ELSE [st EXCEPT
             !.all_glyphs = @ \cup r.obj.all_glyphs,
             !.scripts = @ \cup r.obj.scripts,
             !.languages = @ \cup r.obj.languages,
             !.code_sequence =
                 Append(@, AdoptScope(r.obj, st.current_script, st.current_language)),
             !.current_script =
                 LookupBody(NewLookup(r.obj.name, st.current_script,
                                      st.current_language),
                            SubSeq(st.code_lines, st.i + 1, lookup_end - 1)
                           ).current_script,
             !.current_language =
                 LookupBody(NewLookup(r.obj.name, st.current_script,
                                      st.current_language),
                            SubSeq(st.code_lines, st.i + 1, lookup_end - 1)
                           ).current_language,
             !.i = lookup_end + 1]

\* lines 78-88 and 119-121 with the Lookup built from the block
StoreLookup(st, lookup_end, r) ==
    IF r.raised THEN [st EXCEPT !.raised = TRUE]
    ELSE [st EXCEPT
             !.all_glyphs = @ \cup r.obj.all_glyphs,
             !.scripts = @ \cup r.obj.scripts,
             !.languages = @ \cup r.obj.languages,
             !.code_sequence =
                 Append(@, AdoptScope(r.obj, st.current_script, st.current_language)),
             !.i = lookup_end + 1]

\* lines 73-79 with the arguments of line 79 exchanged
ReadBlock_SwappedScope(st, lookup_end) ==
    IF lookup_end = 0 THEN [st EXCEPT !.raised = TRUE]
    ELSE StoreLookup(st, lookup_end,
                     Lookup(SubSeq(st.code_lines, st.i, lookup_end),
                            st.current_language, st.current_script))

\* lines 73-79 with the index of the closing line
ReadBlock(st, lookup_end) ==
    IF lookup_end = 0 THEN [st EXCEPT !.raised = TRUE]
    ELSE StoreLookup(st, lookup_end,
                     Lookup(SubSeq(st.code_lines, st.i, lookup_end),
                            st.current_script, st.current_language))

\* lines 67-72 with the result of the search for the name
FindBlock(st, found) ==
    ReadBlock(st, IF found.found
                  THEN FindLookupEnd(st.code_lines, st.i, found.group)
                  ELSE 0)

\* lines 91-92 and 119-121 with the Substitution built from the line
StoreSubstitution(st, r) ==
    IF r.raised THEN [st EXCEPT !.raised = TRUE]
    ELSE [st EXCEPT !.code_sequence = Append(@, r.obj),
                    !.all_glyphs = @ \cup SeqToSet(r.obj.all_glyphs),
                    !.i = @ + 1]

\* lines 96-121 without the assignments to current_script and
\* current_language
StoreFlag_KeepScope(st, f) ==
    [st EXCEPT
        !.scripts = @ \cup f.scripts,
        !.languages = @ \cup f.languages,
        !.code_sequence =
            Append(IF f.obj.lookup_reference # NoneText
                   THEN ExtendReferenced(@, f.obj.lookup_reference,
                                         f.current_script, f.current_language)
                   ELSE @,
                   f.obj),
        !.i = @ + 1]

\* lines 96-121 with the scope handling of the control statement
StoreFlag(st, f) ==
    [st EXCEPT
        !.scripts = @ \cup f.scripts,
        !.languages = @ \cup f.languages,
        !.current_script = f.current_script,
        !.current_language = f.current_language,
        !.code_sequence =
            Append(IF f.obj.lookup_reference # NoneText
                   THEN ExtendReferenced(@, f.obj.lookup_reference,
                                         f.current_script, f.current_language)
                   ELSE @,
                   f.obj),
        !.i = @ + 1]

\* lines 61-63 and 119-121 with the class built from the line
StoreClass(st, obj) ==
    [st EXCEPT !.code_sequence = Append(@, obj),
               !.all_glyphs = @ \cup SeqToSet(obj.members),
               !.i = @ + 1]

\* lines 49-121 on the stripped line
Classify(st, line) ==
    IF line[1] = "#"
    THEN [st EXCEPT
             !.code_sequence =
                 Append(@, LookupFlag(line, st.current_script, st.current_language)),
             !.i = @ + 1]
    ELSE IF StartsWithAt(line)
    THEN StoreClass(st, InFeatureClass(line, st.current_script, st.current_language))
    ELSE IF line[1] \in {"lookup", "lookupflag"} /\ line[Len(line)] = "{"
    THEN FindBlock(st, LookupNameSearch(line))
    ELSE IF line[1] = "sub"
    THEN StoreSubstitution(st, Substitution(line, st.current_script,
                                            st.current_language))
    ELSE StoreFlag(st, FlagScope(LookupFlag(line, st.current_script,
                                            st.current_language),
                                 st.current_script, st.current_language))

\* one iteration of the while loop of parse_code (lines 48-121) at line st.i
LoopIteration(st) == Classify(st, Strip(st.code_lines[st.i]))

RECURSIVE ParseLoop(_)
\* the while loop of parse_code run to its end
ParseLoop(st) ==
    IF st.raised \/ st.i > Len(st.code_lines) THEN st
    ELSE ParseLoop(LoopIteration(st))

(***************************************************************************)
(* Subsetting (src/feature.py 138-183).  The subset methods of LookupFlag, *)
(* InFeatureClass and Lookup belong to lookup.py and follow the            *)
(* specification: the first two always survive, a Lookup filters its own   *)
(* sequence and is dropped when no rule is left in it.                     *)
(***************************************************************************)
\* LookupFlag.subset and InFeatureClass.subset
Flag_subset(self, fscripts, flanguages, fglyphs) == Some(self)

\* x counts for the owner not being redundant
IsRule(x) ==
    \/ x.kind = "LookupFlag" /\ x.lookup_reference # NoneText
    \/ x.kind = "Lookup"
    \/ x.kind = "Substitution"

\* `if new_x: insert(0, new_x)`: the survivors in reverse order
KeepSome_Reversed(r, rest) == IF r.some THEN rest \o <<r.obj>> ELSE rest

\* `if new_x: append(new_x)`
KeepSome(r, rest) == IF r.some THEN <<r.obj>> \o rest ELSE rest

RECURSIVE FilterBody(_, _, _, _)
\* the statements of a Lookup body that survive
FilterBody(seq, fscripts, flanguages, fglyphs) ==
    IF seq = <<>> THEN <<>>
    ELSE KeepSome(IF Head(seq).kind = "Substitution"
                  THEN Substitution_subset(Head(seq), fscripts, flanguages, fglyphs)
                  ELSE Flag_subset(Head(seq), fscripts, flanguages, fglyphs),
                  FilterBody(Tail(seq), fscripts, flanguages, fglyphs))

\* a Lookup with its filtered sequence, nothing when no rule is left in it
ElideLookup(new) ==
    IF \E k \in 1..Len(new.code_sequence) : IsRule(new.code_sequence[k])
    THEN Some(new) ELSE Nothing

\* Lookup.subset
Lookup_subset(self, fscripts, flanguages, fglyphs) ==
    IF AllNone(fscripts, flanguages, fglyphs) THEN Some(self)
    ELSE ElideLookup([self EXCEPT !.code_sequence =
                         FilterBody(@, fscripts, flanguages, fglyphs)])

\* line 145: x.subset(scripts=scripts, languages=languages, glyphs=glyphs)
Statement_subset(x, fscripts, flanguages, fglyphs) ==
    IF x.kind = "Substitution"
    THEN Substitution_subset(x, fscripts, flanguages, fglyphs)
    ELSE IF x.kind = "Lookup" THEN Lookup_subset(x, fscripts, flanguages, fglyphs)
    ELSE Flag_subset(x, fscripts, flanguages, fglyphs)

RECURSIVE FilterSequence(_, _, _, _)
\* lines 143-147
FilterSequence(seq, fscripts, flanguages, fglyphs) ==
    IF seq = <<>> THEN <<>>
    ELSE KeepSome(Statement_subset(Head(seq), fscripts, flanguages, fglyphs),
                  FilterSequence(Tail(seq), fscripts, flanguages, fglyphs))

\* x.name exists: a Substitution has no name (src/substitution.py 46-60), nor
\* has a LookupFlag
HasName(x) == x.kind \in {"Lookup", "InFeatureClass"}

\* check_lookup_exists finding no definition at all
check_lookup_exists_Never(feature, lookup_name) == FALSE

\* Feature.check_lookup_exists(feature, lookup_name), feature given by its
\* code_sequence
check_lookup_exists(feature, lookup_name) ==
    \E k \in 1..Len(feature) : HasName(feature[k]) /\ feature[k].name = lookup_name

\* lines 155-157: every Lookup of the original sequence with the name is
\* assigned to position k in turn, so the last one stays
InlineDefinition(new_sequence, original, k, lookup_name) ==
    LET defs == {j \in 1..Len(original) :
                    original[j].kind = "Lookup" /\ original[j].name = lookup_name}
    IN IF defs = {} THEN new_sequence
       ELSE [new_sequence EXCEPT ![k] = original[Max(defs)]]

\* lines 151-157 without the repair: the reference stays as it is
RepairAt_NoInline(new_sequence, original, k) == new_sequence

\* lines 151-157 for position k
RepairAt(new_sequence, original, k) ==
    IF /\ new_sequence[k].kind = "LookupFlag"
       /\ new_sequence[k].lookup_reference # NoneText
       /\ ~check_lookup_exists(new_sequence, new_sequence[k].lookup_reference)
    THEN InlineDefinition(new_sequence, original, k, new_sequence[k].lookup_reference)
    ELSE new_sequence

RECURSIVE Repair(_, _, _)
\* the loop of lines 150-157 from position k on
Repair(new_sequence, original, k) ==
    IF k > Len(new_sequence) THEN new_sequence
    ELSE Repair(RepairAt(new_sequence, original, k), original, k + 1)

\* lines 160-169 returning new for any statement at all
ReturnsNew_AnyStatement(new_sequence, k) == k <= Len(new_sequence)

RECURSIVE ReturnsNew(_, _)
\* the loop of lines 160-169 from position k on: TRUE when it returns new
ReturnsNew(new_sequence, k) ==
    IF k > Len(new_sequence) THEN FALSE
    ELSE IF IsRule(new_sequence[k]) THEN TRUE
    ELSE ReturnsNew(new_sequence, k + 1)

\* lines 159-169
ElideRedundant(new) ==
    IF ReturnsNew(new.code_sequence, 1) THEN Some(new) ELSE Nothing

\* Feature.subset without the early return of lines 140-141
Feature_subset_NoEarlyReturn(self, fscripts, flanguages, fglyphs) ==
    ElideRedundant([self EXCEPT !.code_sequence =
        Repair(FilterSequence(@, fscripts, flanguages, fglyphs), @, 1)])

\* Feature.subset
Feature_subset(self, fscripts, flanguages, fglyphs) ==
    IF AllNone(fscripts, flanguages, fglyphs) THEN Some(self)
    ELSE ElideRedundant([self EXCEPT !.code_sequence =
             Repair(FilterSequence(@, fscripts, flanguages, fglyphs), @, 1)])

(***************************************************************************)
(* The receiver after a call.  copy.copy(self) is a shallow copy: new and  *)
(* the receiver hold the same list and the same sets until a field of new  *)
(* is bound to another object, and what is written in place to a field     *)
(* they still share is written to the receiver too.                        *)
(***************************************************************************)
\* line 139: the fields whose objects new shares with the receiver
SharedByCopy == {"code_sequence", "scripts", "languages", "all_glyphs"}

\* no field of new is bound to a list of its own
Rebound_None == {}

\* line 143: new.code_sequence = []
Rebound == {"code_sequence"}

\* lines 147 and 157: append and item assignment on new.code_sequence
WrittenInPlace == {"code_sequence"}

\* the list that lines 144-157 leave in a code_sequence they append to
WrittenThrough(seq, survivors) == Repair(seq \o survivors, seq \o survivors, 1)

\* the receiver after Feature.subset (lines 138-169)
Feature_subset_receiver(self, fscripts, flanguages, fglyphs) ==
    IF AllNone(fscripts, flanguages, fglyphs) THEN self
    ELSE IF "code_sequence" \in (WrittenInPlace \cap SharedByCopy) \ Rebound
    THEN [self EXCEPT !.code_sequence =
             WrittenThrough(@, FilterSequence(@, fscripts, flanguages, fglyphs))]
    ELSE self

\* the receiver after Substitution.subset (src/substitution.py 153-172):
\* the method binds the locals new and glyphs and assigns no attribute
Substitution_subset_receiver(self, fscripts, flanguages, fglyphs) == self

(***************************************************************************)
(* Writing (src/feature.py 123-136) and reading the written text again     *)
(* (src/feature.py 12-47).  A text of several lines has the lexeme "\n"    *)
(* between its lines.  The write methods of LookupFlag, InFeatureClass and *)
(* Lookup belong to lookup.py and follow the specification.                *)
(***************************************************************************)
NL == "\n"

\* LookupFlag.write
LookupFlag_write(self, tab_level) == Tabs(tab_level) \o self.raw_code

\* InFeatureClass.write
InFeatureClass_write(self, tab_level) ==
    Tabs(tab_level) \o self.name \o <<SP, "=", SP, "[">>
    \o Join(self.members, <<SP>>) \o <<"]", ";">>

\* x.write(tab_level) for a statement of one line
Statement_write(x, tab_level) ==
    IF x.kind = "Substitution" THEN Substitution_write(x, tab_level)
    ELSE IF x.kind = "InFeatureClass" THEN InFeatureClass_write(x, tab_level)
    ELSE LookupFlag_write(x, tab_level)

\* Lookup.write
Lookup_write(self, tab_level) ==
    Join(<<Tabs(tab_level) \o <<"lookup", SP>> \o self.name \o <<SP, "{">>>>
         \o [k \in 1..Len(self.code_sequence) |->
                Statement_write(self.code_sequence[k], tab_level + 1)]
         \o <<Tabs(tab_level) \o <<"}", SP>> \o self.name \o <<";">>>>,
         <<NL>>)

\* line 130: x.write(tab_level=tab_level + 1) for every statement
WriteSequence(seq, tab_level) ==
    Join([k \in 1..Len(seq) |->
             IF seq[k].kind = "Lookup" THEN Lookup_write(seq[k], tab_level)
             ELSE Statement_write(seq[k], tab_level)],
         <<NL>>)

\* Feature.write(tab_level) with the feature declaration
Feature_write(self, tab_level) ==
    Tabs(tab_level) \o <<"feature", SP>> \o self.name \o <<SP, "{", NL>>
    \o WriteSequence(self.code_sequence, tab_level + 1)
    \o <<NL>> \o Tabs(tab_level) \o <<"}", SP>> \o self.name \o <<";">>

\* re.search(r'feature (.+?) {(.+)}', raw_code, flags=re.DOTALL): the
\* leftmost `feature `, the first ` {` after it that a `}` follows with
\* something in between, and the last `}`
FeatureSearch(t) ==
    LET closes(q) == {r \in (q + 3)..Len(t) : t[r] = "}"}
        opens(p) == {q \in (p + 3)..Len(t) :
                        MatchAt(t, <<SP, "{">>, q) /\ closes(q) # {}}
        starts == {p \in Occurrences(t, <<"feature", SP>>) : opens(p) # {}}
    IN IF starts = {} THEN [found |-> FALSE, name |-> <<>>, feature_code |-> <<>>]
       ELSE [found |-> TRUE,
             name |-> SubSeq(t, Min(starts) + 2, Min(opens(Min(starts))) - 1),
             feature_code |-> SubSeq(t, Min(opens(Min(starts))) + 2,
                                     Max(closes(Min(opens(Min(starts))))) - 1)]

RECURSIVE StripLines(_)
\* line 42: [x.strip() for x in lines if x.strip()]
StripLines(lines) ==
    IF lines = <<>> THEN <<>>
    ELSE IF Strip(Head(lines)) = <<>> THEN StripLines(Tail(lines))
    ELSE <<Strip(Head(lines))>> \o StripLines(Tail(lines))

\* the Feature after parse_code: [raised, obj]
BuildFeature(feature_name, st) ==
    [raised |-> st.raised,
     obj |-> [kind |-> "Feature", name |-> feature_name,
              code_sequence |-> st.code_sequence, scripts |-> st.scripts,
              languages |-> st.languages, all_glyphs |-> st.all_glyphs]]

\* lines 33-47 with the result of the search for the name
ParseFound(found) ==
    IF ~found.found
    THEN [raised |-> TRUE, obj |-> <<>>]
    ELSE BuildFeature(found.name,
             ParseLoop(ParseState(StripLines(Split(found.feature_code, NL)), 1,
                                  None, None, <<>>, {}, {}, {}, FALSE)))

\* the receiver after Feature.write (lines 123-136): tab_level, f_template,
\* code and feature_text are locals, and no attribute is assigned
Feature_write_receiver(self, tab_level) == self

\* Feature(code): the name is read from the text
Feature(code) == ParseFound(FeatureSearch(code))

(***************************************************************************)
(* Bounded inputs for one Feature.  The input is read line by line: every  *)
(* parsing action chooses the next line (for a lookup block, the lines up  *)
(* to its end) and runs the loop iteration on it.                          *)
(***************************************************************************)
MaxStatements == 4      \* statements of the Feature's own sequence
MaxLookups == 1         \* lookup blocks among them
MaxBody == 2            \* lines between the opening and closing line of a block
MaxOperand == 3         \* statements of a Feature that subset or write is called on

FeatureName == <<"ccmp">>
LookupNames == {<<"L">>, <<"L", "X">>}

CommentLine == <<"#", SP, "note">>
ClassLine == <<"@C", SP, "=", SP, "[", "a", SP, "b", "]", ";">>
OpenLine(n) == <<"lookup", SP>> \o n \o <<SP, "{">>
CloseLine(n) == <<"}", SP>> \o n \o <<";">>
ReferenceLine(n) == <<"lookup", SP>> \o n \o <<";">>
ScriptLine(tag) == <<"script", SP, tag, ";">>
LanguageLine(tag) == <<"language", SP, tag, ";">>

\* sub a by b;    sub c' d by e;
RuleLines ==
    { <<"sub", SP, "a", SP, "by", SP, "b", ";">>,
      <<"sub", SP, "c", TICK, SP, "d", SP, "by", SP, "e", ";">> }
\* sub a  b by c;  (two spaces)
WideRuleLine == <<"sub", SP, "a", SP, SP, "b", SP, "by", SP, "c", ";">>

FlagLines ==
    {ScriptLine(t) : t \in ScriptTags} \cup {LanguageLine("MAR")}
    \cup {ReferenceLine(<<"L">>)}

BodyLines == RuleLines \cup {ScriptLine("dev2")}

RECURSIVE BodiesUpTo(_)
BodiesUpTo(n) ==
    IF n = 0 THEN {<<>>}
    ELSE BodiesUpTo(n - 1)
         \cup {Append(b, l) : b \in BodiesUpTo(n - 1), l \in BodyLines}

Bodies == BodiesUpTo(MaxBody)

\* the blocks that end: an opening line, a body without a line that closes
\* the name, and a line that closes it
ClosedBlocks ==
    {b \in {<<OpenLine(n)>> \o body \o <<CloseLine(m)>> :
               n \in LookupNames, body \in Bodies, m \in LookupNames} :
        FindLookupEnd(b, 1, LookupNameSearch(b[1]).group) = Len(b)}

\* the rest of an input after an opening line that nothing closes
UnclosedBlocks ==
    {b \in {<<OpenLine(n)>> \o body \o tail :
               n \in LookupNames, body \in BodiesUpTo(1),
               tail \in {<<>>} \cup {<<CloseLine(m)>> : m \in LookupNames}} :
        FindLookupEnd(b, 1, LookupNameSearch(b[1]).group) = 0}

FeatureInit ==
    /\ code_lines = <<>>
    /\ i = 1
    /\ current_script = None
    /\ current_language = None
    /\ name = FeatureName
    /\ code_sequence = <<>>
    /\ scripts = {}
    /\ languages = {}
    /\ all_glyphs = {}
    /\ pc = "parsing"
    /\ op = NoOp

\* the variables of the Feature after a loop iteration
Assign(st) ==
    /\ code_lines' = st.code_lines
    /\ i' = st.i
    /\ current_script' = st.current_script
    /\ current_language' = st.current_language
    /\ code_sequence' = st.code_sequence
    /\ scripts' = st.scripts
    /\ languages' = st.languages
    /\ all_glyphs' = st.all_glyphs
    /\ pc' = IF st.raised THEN "raised" ELSE "parsing"
    /\ UNCHANGED <<name, op>>
    /\ UNCHANGED s_vars

\* the loop iteration of parse_code on the input extended by `lines`
Read(lines) ==
    Assign(LoopIteration(ParseState(code_lines \o lines, i, current_script,
                                    current_language, code_sequence, scripts,
                                    languages, all_glyphs, FALSE)))

CanRead == pc = "parsing" /\ Len(code_sequence) < MaxStatements

\* line 57: a comment
ReadComment == CanRead /\ Read(<<CommentLine>>)

\* line 61: a class defined within the feature
ReadClass == CanRead /\ Read(<<ClassLine>>)

CanReadLookup ==
    /\ CanRead
    /\ Cardinality({k \in 1..Len(code_sequence) : code_sequence[k].kind = "Lookup"})
         < MaxLookups

\* line 66: a lookup definition whose end is found
ReadLookup == CanReadLookup /\ \E b \in ClosedBlocks : Read(b)

\* line 66: a lookup definition with no closing line in the rest of the input
ReadUnclosedLookup == CanReadLookup /\ \E b \in UnclosedBlocks : Read(b)

\* line 90: a substitution
ReadSubstitution ==
    /\ CanRead
    /\ \E l \in RuleLines \cup {WideRuleLine} : Read(<<l>>)

\* line 94: any other statement
ReadFlag ==
    /\ CanRead
    /\ \E l \in FlagLines : Read(<<l>>)

\* the Feature object
Self ==
    [kind |-> "Feature", name |-> name, code_sequence |-> code_sequence,
     scripts |-> scripts, languages |-> languages, all_glyphs |-> all_glyphs]

FeatureScriptFilters == {Unset, List({"latn"})}
FeatureLanguageFilters == {Unset, List({"MAR"})}
FeatureGlyphFilters ==
    {Unset, List({}), List({<<"a">>, <<"b">>}), List({<<"c">>, <<"d">>, <<"e">>})}

\* the loop of parse_code has ended on the input read so far
Parsed == pc = "parsing" /\ Len(code_sequence) <= MaxOperand

\* Feature.subset(scripts, languages, glyphs)
FeatureSubset ==
    /\ Parsed
    /\ \E fs \in FeatureScriptFilters, fl \in FeatureLanguageFilters,
          fg \in FeatureGlyphFilters :
         op' = [name |-> "subset", scripts |-> fs, languages |-> fl, glyphs |-> fg,
                result |-> Feature_subset(Self, fs, fl, fg)]
    /\ pc' = "done"
    /\ UNCHANGED <<code_lines, i, current_script, current_language, name,
                   code_sequence, scripts, languages, all_glyphs>>
    /\ UNCHANGED s_vars

\* the written text and the Feature read from it
RoundTripRecord(text) ==
    [name |-> "roundtrip", text |-> text, result |-> Feature(text)]

\* Feature(self.write())
FeatureRoundTrip ==
    /\ Parsed
    /\ op' = RoundTripRecord(Feature_write(Self, 0))
    /\ pc' = "done"
    /\ UNCHANGED <<code_lines, i, current_script, current_language, name,
                   code_sequence, scripts, languages, all_glyphs>>
    /\ UNCHANGED s_vars

Init == FeatureInit /\ SubIdle

Next ==
    \/ ReadComment \/ ReadClass \/ ReadLookup \/ ReadUnclosedLookup
    \/ ReadSubstitution \/ ReadFlag
    \/ FeatureSubset \/ FeatureRoundTrip

Spec == Init /\ [][Next]_vars

(***************************************************************************)
(* Calls in a row on one parsed Feature: subset, write, and subset of one  *)
(* of its rules.  Every call leaves in the variables of the Feature what   *)
(* the call leaves in the receiver, and records in op the Feature as it    *)
(* was parsed and as it was before the call.                               *)
(***************************************************************************)
MaxCalls == 2           \* calls in a row on one Feature
MaxCallOperand == 2     \* statements of a Feature that calls in a row are made on

CallScriptFilters == {Unset, List({"latn"})}
CallGlyphFilters == {Unset, List({<<"a">>, <<"b">>})}

\* the calls made so far
CallCount == IF op.name = "none" THEN 0 ELSE op.calls

\* the Feature as parse_code left it
AsParsed == IF op.name = "none" THEN Self ELSE op.parsed

CanCall ==
    /\ pc \in {"parsing", "called"}
    /\ Len(code_sequence) <= MaxCallOperand
    /\ CallCount < MaxCalls

\* the variables after a call that leaves `receiver` and returns `result`
Called(method, args, result, receiver) ==
    /\ op' = [name |-> method, scripts |-> args.scripts,
              languages |-> args.languages, glyphs |-> args.glyphs,
              index |-> args.index, result |-> result,
              before |-> Self, parsed |-> AsParsed, calls |-> CallCount + 1]
    /\ name' = receiver.name
    /\ code_sequence' = receiver.code_sequence
    /\ scripts' = receiver.scripts
    /\ languages' = receiver.languages
    /\ all_glyphs' = receiver.all_glyphs
    /\ pc' = "called"
    /\ UNCHANGED <<code_lines, i, current_script, current_language>>
    /\ UNCHANGED s_vars

\* the arguments of a call
Args(fscripts, flanguages, fglyphs, index) ==
    [scripts |-> fscripts, languages |-> flanguages, glyphs |-> fglyphs,
     index |-> index]

\* self.subset(scripts, languages, glyphs)
CallSubset ==
    /\ CanCall
    /\ \E fs \in CallScriptFilters, fg \in CallGlyphFilters :
         Called("subset", Args(fs, Unset, fg, 0),
                Feature_subset(Self, fs, Unset, fg),
                Feature_subset_receiver(Self, fs, Unset, fg))

\* self.write()
CallWrite ==
    /\ CanCall
    /\ Called("write", Args(Unset, Unset, Unset, 0),
              Feature_write(Self, 0), Feature_write_receiver(Self, 0))

\* self[k].subset(scripts, languages, glyphs) for a rule of the Feature
CallRuleSubset ==
    /\ CanCall
    /\ \E k \in 1..Len(code_sequence), fg \in CallGlyphFilters :
         /\ code_sequence[k].kind = "Substitution"
         /\ Called("rule_subset", Args(Unset, Unset, fg, k),
                   Substitution_subset(code_sequence[k], Unset, Unset, fg),
                   [Self EXCEPT !.code_sequence[k] =
                       Substitution_subset_receiver(@, Unset, Unset, fg)])

CallNext ==
    \/ ReadComment \/ ReadClass \/ ReadLookup \/ ReadUnclosedLookup
    \/ ReadSubstitution \/ ReadFlag
    \/ CallSubset \/ CallWrite \/ CallRuleSubset

CallSpec == Init /\ [][CallNext]_vars

(***************************************************************************)
(* Properties of one Feature, checked under Spec.                          *)
(***************************************************************************)
IsReference(x) == x.kind = "LookupFlag" /\ x.lookup_reference # NoneText

\* every Substitution of seq, directly in it or inside one of its Lookups,
\* has all its glyphs in G
GlyphsWithin(seq, G) ==
    \A k \in 1..Len(seq) :
        /\ seq[k].kind = "Substitution" => SeqToSet(seq[k].all_glyphs) \subseteq G
        /\ seq[k].kind = "Lookup" =>
              \A j \in 1..Len(seq[k].code_sequence) :
                  seq[k].code_sequence[j].kind = "Substitution" =>
                      SeqToSet(seq[k].code_sequence[j].all_glyphs) \subseteq G

\* C2: every Substitution retained in F.subset(glyphs=G), directly in the
\* result or inside a Lookup of the result, has all_glyphs within G.
C2_SubsetContainment ==
    /\ op.name = "subset" /\ op.result.some
    /\ op.glyphs.given /\ ~op.scripts.given /\ ~op.languages.given
    => GlyphsWithin(op.result.obj.code_sequence, op.glyphs.items)

RepairedSequence ==
    Repair(FilterSequence(code_sequence, op.scripts, op.languages, op.glyphs),
           code_sequence, 1)

\* C5: with at least one filter supplied, Feature.subset returns nothing if
\* and only if the filtered and reference-repaired sequence holds no
\* LookupFlag with a lookup reference, no Lookup and no Substitution, and
\* otherwise returns the new Feature holding exactly that sequence.
C5_RedundantElision ==
    /\ op.name = "subset"
    /\ op.scripts.given \/ op.languages.given \/ op.glyphs.given
    => /\ ~op.result.some <=>
             \A k \in 1..Len(RepairedSequence) :
                 /\ ~IsReference(RepairedSequence[k])
                 /\ RepairedSequence[k].kind \notin {"Lookup", "Substitution"}
       /\ op.result.some =>
             /\ op.result.obj.code_sequence = RepairedSequence
             /\ op.result.obj.name = name

\* a Feature whose only rule was filtered out, leaving a class or a comment,
\* and for which subset returned nothing
C5_Witness ==
    /\ op.name = "subset" /\ ~op.result.some
    /\ \E k \in 1..Len(code_sequence) : code_sequence[k].kind = "Substitution"
    /\ \E k \in 1..Len(code_sequence) :
          code_sequence[k].kind \in {"InFeatureClass", "LookupFlag"}

\* statement k of the Feature is a `script TAG;` (`language TAG;`) line
IsScriptLine(x) == x.kind = "LookupFlag" /\ StartsWith(x.raw_code, <<"script", SP>>)
IsLanguageLine(x) == x.kind = "LookupFlag" /\ StartsWith(x.raw_code, <<"language", SP>>)

\* the script statements before statement k, and the script current there
ScriptLinesBefore(k) == {j \in 1..(k - 1) : IsScriptLine(code_sequence[j])}
ScriptAt(k) ==
    IF ScriptLinesBefore(k) = {} THEN None
    ELSE code_sequence[Max(ScriptLinesBefore(k))].raw_code[3]

\* the language statements before statement k that follow the last script
\* statement, and the language current at statement k
LanguageLinesBefore(k) ==
    {j \in 1..(k - 1) : /\ IsLanguageLine(code_sequence[j])
                        /\ ScriptLinesBefore(k) # {}
                        /\ j > Max(ScriptLinesBefore(k))}
LanguageAt(k) ==
    IF LanguageLinesBefore(k) = {} THEN None
    ELSE code_sequence[Max(LanguageLinesBefore(k))].raw_code[3]

\* the scripts a block declares in its own body
DeclaredScripts(lookup) ==
    {lookup.code_sequence[j].raw_code[3] :
        j \in {j \in 1..Len(lookup.code_sequence) :
                  IsScriptLine(lookup.code_sequence[j])}}

\* the later lines of the Feature that refer to the block at position k
ReferencesTo(k) ==
    {j \in (k + 1)..Len(code_sequence) :
        /\ IsReference(code_sequence[j])
        /\ code_sequence[j].lookup_reference = code_sequence[k].name}

\* C6: for every Lookup block of the code_sequence, its scripts are the
\* scripts it declares or inherits together with the scripts current at the
\* later `lookup NAME;` lines that name it, and nothing else; likewise its
\* languages (no block of the inputs declares a language of its own).
C6_ScopeThroughReferences ==
    \A k \in 1..Len(code_sequence) :
        code_sequence[k].kind = "Lookup" =>
            /\ code_sequence[k].scripts =
                   (DeclaredScripts(code_sequence[k]) \cup {ScriptAt(k)}
                    \cup {ScriptAt(j) : j \in ReferencesTo(k)}) \ {None}
            /\ code_sequence[k].languages =
                   ({LanguageAt(k)} \cup {LanguageAt(j) : j \in ReferencesTo(k)})
                   \ {None}

\* a block that declares nothing, defined before any script statement and
\* referenced under script dev2 and language MAR
C6_Witness ==
    \E k \in 1..Len(code_sequence) :
        /\ code_sequence[k].kind = "Lookup"
        /\ DeclaredScripts(code_sequence[k]) = {}
        /\ ScriptAt(k) = None
        /\ ReferencesTo(k) # {}
        /\ code_sequence[k].scripts = {"dev2"}
        /\ code_sequence[k].languages = {"MAR"}

\* the line closes exactly the name: `} NAME;` or `}NAME;`
ClosesExactly(line, lookup_name) ==
    \/ line = <<"}", SP>> \o lookup_name \o <<";">>
    \/ line = <<"}">> \o lookup_name \o <<";">>

\* the line opens a block
IsOpening(line) == line[1] = "lookup" /\ line[Len(line)] = "{"

RECURSIVE ClosedExactly(_, _)
\* from line p and statement k on, every Lookup of the code_sequence is
\* closed by a line that closes exactly its name; the closing line of a
\* block is the line after the lines of its statements
ClosedExactly(p, k) ==
    IF k > Len(code_sequence) THEN TRUE
    ELSE IF code_sequence[k].kind = "Lookup"
    THEN /\ ClosesExactly(code_lines[p + Len(code_sequence[k].code_sequence) + 1],
                          code_sequence[k].name)
         /\ ClosedExactly(p + Len(code_sequence[k].code_sequence) + 2, k + 1)
    ELSE ClosedExactly(p + 1, k + 1)

\* C9: the block of a `lookup NAME {` line ends at the first following line
\* that closes exactly NAME, never at the close line of another name, and
\* when the rest of the input has no line closing exactly NAME the parse
\* fails.
C9_BlockMatching ==
    /\ ClosedExactly(1, 1)
    /\ (/\ i <= Len(code_lines)
        /\ IsOpening(code_lines[i])
        /\ ~\E p \in i..Len(code_lines) :
               ClosesExactly(code_lines[p], LookupNameSearch(code_lines[i]).group))
       => pc = "raised"

\* what round-trip stability compares of a rule: its element sequences with
\* their target marks, its flags, its script and language
RuleShape(x) ==
    [input_sequence |-> x.input_sequence, output_sequence |-> x.output_sequence,
     is_chaining |-> x.is_chaining, is_contextual |-> x.is_contextual,
     script |-> x.script, language |-> x.language]

\* the sequences have the same statement kinds in the same order and equal
\* rules at the same places
SameStatements(seq1, seq2) ==
    /\ Len(seq1) = Len(seq2)
    /\ \A k \in 1..Len(seq1) :
          /\ seq1[k].kind = seq2[k].kind
          /\ seq1[k].kind = "Substitution" => RuleShape(seq1[k]) = RuleShape(seq2[k])

\* structural equality of two Features, one level of Lookup blocks
SameStructure(f1, f2) ==
    /\ f1.name = f2.name
    /\ SameStatements(f1.code_sequence, f2.code_sequence)
    /\ \A k \in 1..Len(f1.code_sequence) :
          f1.code_sequence[k].kind = "Lookup" =>
              SameStatements(f1.code_sequence[k].code_sequence,
                             f2.code_sequence[k].code_sequence)

\* the input read so far is syntactically valid: every block is closed by a
\* line that closes exactly its name, and no block is left open
ValidText ==
    /\ ClosedExactly(1, 1)
    /\ ~(i <= Len(code_lines) /\ IsOpening(code_lines[i]))

\* C7: a syntactically valid feature text parses, and the Feature read from
\* the text that write() gives is structurally equal to the first one: same
\* name, same statement kinds in order, and equal rules.
C7_RoundTrip ==
    ValidText =>
        /\ pc # "raised"
        /\ op.name = "roundtrip" =>
              /\ ~op.result.raised
              /\ SameStructure(Self, op.result.obj)

(***************************************************************************)
(* Properties of the scope that parse_code threads through the statements, *)
(* checked under Spec.  The statements meant are those of the Feature's    *)
(* own code_sequence.                                                      *)
(***************************************************************************)
\* statement k is a Substitution or a Lookup
IsScoped(k) == code_sequence[k].kind \in {"Substitution", "Lookup"}

\* the script and language statements before statement k
ScopeLinesBefore(k) ==
    {j \in 1..(k - 1) : IsScriptLine(code_sequence[j]) \/ IsLanguageLine(code_sequence[j])}

\* C13 as claimed: every Substitution and every Lookup of the code_sequence
\* has a script if a script statement precedes it, and a language if a
\* language statement precedes it.
C13_ResolvedScope ==
    \A k \in 1..Len(code_sequence) :
        IsScoped(k) =>
            /\ ScriptLinesBefore(k) # {} => code_sequence[k].script # None
            /\ (\E j \in 1..(k - 1) : IsLanguageLine(code_sequence[j])) =>
                  code_sequence[k].language # None

\* C13 as amended: every Substitution and every Lookup of the code_sequence
\* has a script if a script statement precedes it, and a language if a
\* language statement precedes it with a script statement before that
\* language statement and none between it and the object.
C13_ResolvedScopeSinceScript ==
    \A k \in 1..Len(code_sequence) :
        IsScoped(k) =>
            /\ ScriptLinesBefore(k) # {} => code_sequence[k].script # None
            /\ LanguageLinesBefore(k) # {} => code_sequence[k].language # None

\* a rule read after a script and a language statement, with both resolved
C13_Witness ==
    \E k \in 1..Len(code_sequence) :
        /\ code_sequence[k].kind = "Substitution"
        /\ LanguageLinesBefore(k) # {}
        /\ code_sequence[k].script # None
        /\ code_sequence[k].language # None

\* C15: a Substitution or Lookup whose last preceding script or language
\* statement is `script X;` has script X and no language, whatever language
\* was current before; right after `script X;` the current script is X and
\* the current language is unset; X is in Feature.scripts.
C15_ScriptResetsLanguage ==
    /\ \A k \in 1..Len(code_sequence) :
          IsScoped(k) /\ ScopeLinesBefore(k) # {}
          /\ IsScriptLine(code_sequence[Max(ScopeLinesBefore(k) \cup {0})]) =>
              /\ code_sequence[k].script =
                     code_sequence[Max(ScopeLinesBefore(k))].raw_code[3]
              /\ code_sequence[k].language = None
    /\ \A k \in 1..Len(code_sequence) :
          IsScriptLine(code_sequence[k]) => code_sequence[k].raw_code[3] \in scripts
    /\ code_sequence # <<>> /\ IsScriptLine(code_sequence[Len(code_sequence)]) =>
          /\ current_script = code_sequence[Len(code_sequence)].raw_code[3]
          /\ current_language = None

\* a rule read right after `script dev2;`, which followed a language
\* statement that had taken effect: the rule has script dev2 and no language
C15_Witness ==
    \E k \in 1..Len(code_sequence) :
        /\ code_sequence[k].kind = "Substitution"
        /\ k > 1 /\ IsScriptLine(code_sequence[k - 1])
        /\ LanguageAt(k - 1) # None
        /\ code_sequence[k].script = "dev2"
        /\ code_sequence[k].language = None

\* the language statements that take effect: those read with a script current
EffectiveLanguageLines ==
    {j \in 1..Len(code_sequence) :
        IsLanguageLine(code_sequence[j]) /\ ScriptAt(j) # None}

\* C16: a `language L;` statement read with a script current makes L the
\* language of the objects after it, adds L to Feature.languages and leaves
\* the script as it was; read with no script current it changes neither the
\* current language nor Feature.languages, and the objects after it have no
\* language.
C16_LanguageNeedsScript ==
    /\ \A k \in 1..Len(code_sequence) :
          IsScoped(k) /\ ScopeLinesBefore(k) # {}
          /\ IsLanguageLine(code_sequence[Max(ScopeLinesBefore(k) \cup {0})]) =>
              /\ code_sequence[k].script = ScriptAt(Max(ScopeLinesBefore(k)))
              /\ code_sequence[k].language =
                     IF ScriptAt(Max(ScopeLinesBefore(k))) # None
                     THEN code_sequence[Max(ScopeLinesBefore(k))].raw_code[3]
                     ELSE None
    /\ languages = {code_sequence[j].raw_code[3] : j \in EffectiveLanguageLines}
    /\ code_sequence # <<>> /\ IsLanguageLine(code_sequence[Len(code_sequence)]) =>
          /\ current_script = ScriptAt(Len(code_sequence))
          /\ current_language =
                 IF ScriptAt(Len(code_sequence)) # None
                 THEN code_sequence[Len(code_sequence)].raw_code[3]
                 ELSE None

\* a rule read right after a language statement that no script precedes:
\* the rule has no language and Feature.languages is empty
C16_Witness ==
    \E k \in 1..Len(code_sequence) :
        /\ code_sequence[k].kind = "Substitution"
        /\ k > 1 /\ IsLanguageLine(code_sequence[k - 1])
        /\ ScriptAt(k) = None
        /\ code_sequence[k].language = None
        /\ languages = {}

\* the union of the glyph sets of the objects of a code_sequence
GlyphUnion(seq) == UNION {GlyphSetOf(seq[k]) : k \in 1..Len(seq)}

\* C14: the all_glyphs of a Feature, as parsed and as returned by
\* Feature.subset, is the union of the glyph sets of the objects in its own
\* code_sequence.
C14_GlyphUnion ==
    /\ all_glyphs = GlyphUnion(code_sequence)
    /\ op.name = "subset" /\ op.result.some =>
          op.result.obj.all_glyphs = GlyphUnion(op.result.obj.code_sequence)

\* C17: a Lookup block that begins while a script (a language) is current
\* has a non-empty scripts (languages) set, and when it declares none of its
\* own and no later line refers to it, that set holds exactly the script
\* (language) current at its opening line (no block of the inputs declares a
\* language of its own).
C17_EnclosingScopeAdopted ==
    \A k \in 1..Len(code_sequence) :
        code_sequence[k].kind = "Lookup" =>
            /\ ScriptAt(k) # None =>
                  /\ code_sequence[k].scripts # {}
                  /\ DeclaredScripts(code_sequence[k]) = {} /\ ReferencesTo(k) = {} =>
                        code_sequence[k].scripts = {ScriptAt(k)}
            /\ LanguageAt(k) # None =>
                  /\ code_sequence[k].languages # {}
                  /\ ReferencesTo(k) = {} =>
                        code_sequence[k].languages = {LanguageAt(k)}

\* a block that declares no script, opened under script latn and language
\* MAR and not referred to, with scripts {latn} and languages {MAR}
C17_Witness ==
    \E k \in 1..Len(code_sequence) :
        /\ code_sequence[k].kind = "Lookup"
        /\ ScriptAt(k) = "latn" /\ LanguageAt(k) = "MAR"
        /\ DeclaredScripts(code_sequence[k]) = {} /\ ReferencesTo(k) = {}
        /\ code_sequence[k].scripts = {"latn"}
        /\ code_sequence[k].languages = {"MAR"}

\* the scripts declared by the script statements of the Feature's own sequence
FeatureLevelScripts ==
    {code_sequence[j].raw_code[3] :
        j \in {j \in 1..Len(code_sequence) : IsScriptLine(code_sequence[j])}}

\* the Lookup blocks of the code_sequence
LookupsOf(seq) == {k \in 1..Len(seq) : seq[k].kind = "Lookup"}

\* C19: a Lookup is constructed with the script and language current at its
\* opening line; the script and language statements inside the block do not
\* change the current scope of the Feature, so the current scope after the
\* block, and the scope of a Substitution or Lookup that follows it, is the
\* scope at the opening line; Feature.scripts and Feature.languages hold what
\* the Feature's own statements and the blocks declare.
C19_NestedScopeStaysInside ==
    /\ \A k \in LookupsOf(code_sequence) :
          /\ code_sequence[k].script = ScriptAt(k)
          /\ code_sequence[k].language = LanguageAt(k)
          /\ k = Len(code_sequence) =>
                /\ current_script = ScriptAt(k)
                /\ current_language = LanguageAt(k)
          /\ k < Len(code_sequence) /\ IsScoped(k + 1) =>
                /\ code_sequence[k + 1].script = ScriptAt(k)
                /\ code_sequence[k + 1].language = LanguageAt(k)
    /\ scripts = FeatureLevelScripts
                 \cup UNION {DeclaredScripts(code_sequence[k]) :
                                k \in LookupsOf(code_sequence)}
    /\ languages = {code_sequence[j].raw_code[3] : j \in EffectiveLanguageLines}

\* a block that declares script dev2 in its body, opened with another scope,
\* and a rule after it that has the scope of the opening line
C19_Witness ==
    \E k \in LookupsOf(code_sequence) :
        /\ "dev2" \in DeclaredScripts(code_sequence[k])
        /\ ScriptAt(k) = "latn"
        /\ k < Len(code_sequence)
        /\ code_sequence[k + 1].kind = "Substitution"
        /\ code_sequence[k + 1].script = "latn"

(***************************************************************************)
(* Properties of the sequence Feature.subset returns, checked under Spec.  *)
(***************************************************************************)
\* the sequence after the filtering of lines 143-147, before the repair
FilteredSequence == FilterSequence(code_sequence, op.scripts, op.languages, op.glyphs)

\* seq holds a Lookup block named n
DefinedIn(seq, n) == \E j \in 1..Len(seq) : seq[j].kind = "Lookup" /\ seq[j].name = n

\* the surviving reference lines whose block is absent from the filtered
\* sequence and defined in the original one
Dangling ==
    {p \in 1..Len(FilteredSequence) :
        /\ IsReference(FilteredSequence[p])
        /\ ~DefinedIn(FilteredSequence, FilteredSequence[p].lookup_reference)
        /\ DefinedIn(code_sequence, FilteredSequence[p].lookup_reference)}

\* the first dangling reference to each name
FirstDangling ==
    {p \in Dangling :
        \A q \in Dangling :
            FilteredSequence[q].lookup_reference = FilteredSequence[p].lookup_reference
                => p <= q}

ComesFrom(r, x) ==
    \/ Statement_subset(x, op.scripts, op.languages, op.glyphs) = Some(r)
    \/ /\ IsReference(x)
       /\ r.kind = "Lookup"
       /\ r.name = x.lookup_reference
       /\ \E j \in 1..Len(code_sequence) : code_sequence[j] = r

\* C20: the code_sequence Feature.subset returns is never longer than the
\* original, and its entries come from distinct entries of the original in
\* the original order: a strictly increasing map of positions takes each
\* entry to the original entry it is the subset of or the repair for.
C20_OrderPreserved ==
    op.name = "subset" /\ op.result.some =>
        /\ Len(op.result.obj.code_sequence) <= Len(code_sequence)
        /\ \E f \in [1..Len(op.result.obj.code_sequence) -> 1..Len(code_sequence)] :
              /\ \A a, b \in 1..Len(op.result.obj.code_sequence) : a < b => f[a] < f[b]
              /\ \A a \in 1..Len(op.result.obj.code_sequence) :
                    ComesFrom(op.result.obj.code_sequence[a], code_sequence[f[a]])

\* a subset that dropped an entry, kept two and repaired a reference
C20_Witness ==
    /\ op.name = "subset" /\ op.result.some
    /\ Len(op.result.obj.code_sequence) = 2
    /\ Len(code_sequence) = 3
    /\ FirstDangling # {}

(***************************************************************************)
(* Properties of calls in a row on one Feature, checked under CallSpec.    *)
(***************************************************************************)
\* x is a comment or a class definition
IsCommentOrClass(x) ==
    \/ x.kind = "InFeatureClass"
    \/ x.kind = "LookupFlag" /\ x.raw_code[1] = "#"

\* C11: with scripts, languages and glyphs all unset, Feature.subset and
\* Substitution.subset return an object equal in content to the receiver
\* (same name, same code_sequence, same scripts, languages and glyphs) and
\* never nothing, also for a Feature that holds only comments and class
\* definitions.
C11_IdentitySubset ==
    /\ op.name = "subset" /\ AllNone(op.scripts, op.languages, op.glyphs) =>
          /\ op.result.some
          /\ op.result.obj = op.before
    /\ op.name = "rule_subset" /\ AllNone(op.scripts, op.languages, op.glyphs) =>
          /\ op.result.some
          /\ op.result.obj = op.before.code_sequence[op.index]

\* subset with no filter was called on a Feature of comments and class
\* definitions only, and returned the Feature
C11_Witness ==
    /\ op.name = "subset" /\ AllNone(op.scripts, op.languages, op.glyphs)
    /\ Len(op.before.code_sequence) = 2
    /\ \A k \in 1..2 : IsCommentOrClass(op.before.code_sequence[k])
    /\ op.result.some

\* C12: after any calls in a row of Feature.subset, Substitution.subset and
\* write, the name, code_sequence (with the fields of every object in it),
\* scripts, languages and all_glyphs of the Feature are the same as right
\* after parsing.
C12_ReceiverUnchanged ==
    op.name \in {"subset", "write", "rule_subset"} => Self = op.parsed

\* the second call in a row was a subset that returned a Feature with another
\* code_sequence than the receiver's, which holds a Lookup put back by the
\* reference repair
C12_Witness ==
    /\ op.name = "subset" /\ op.calls = 2
    /\ op.result.some
    /\ op.result.obj.code_sequence # op.parsed.code_sequence
    /\ \E k \in 1..Len(op.parsed.code_sequence) :
          /\ op.parsed.code_sequence[k].kind = "Lookup"
          /\ ~Lookup_subset(op.parsed.code_sequence[k], op.scripts,
                            op.languages, op.glyphs).some
          /\ op.result.obj.code_sequence = <<op.parsed.code_sequence[k]>>
    /\ Self = op.parsed

=============================================================================
